---- MODULE Spec2Model ----
(***************************************************************************)
(* The task lifecycle and the stack-based scheduling loop of               *)
(* src/scheduler.ts: the persisted task file, the process-local id         *)
(* counter taskNum, the traversal stack, getTaskList and processTask.      *)
(***************************************************************************)
EXTENDS Integers, Sequences, FiniteSets, TLC

VARIABLES tasksFile, taskNum, taskStack, budget, pc, restarts, last, seen,
          workDir

vars == <<tasksFile, taskNum, taskStack, budget, pc, restarts, last, seen,
          workDir>>

(* ---- bounds ---- *)
MaxTasks == 3
MaxSubtasks == 2
MaxLedger == 2
MaxBudget == 2
MaxRestarts == 1
MaxPlanned == 0
MaxStored == 2

(* ---- data ---- *)
Priorities == {"low", "medium", "high"}
Summaries == {"s1", "s2"}

priorityOrder == <<"low", "medium", "high">>

\* Array.prototype.indexOf on priorityOrder, 0-based, -1 when absent
indexOf(p) ==
    IF \E i \in 1..Len(priorityOrder) : priorityOrder[i] = p
    THEN (CHOOSE i \in 1..Len(priorityOrder) : priorityOrder[i] = p) - 1
    ELSE -1

compareTaskPriority(a, b) == indexOf(a.priority) - indexOf(b.priority)

\* the root task literal that main constructs
RootTask ==
    [id |-> 1, parentId |-> 0, description |-> "root", priority |-> "high",
     work_ledger |-> <<>>, requirements_for_success |-> "rootReq",
     completed |-> FALSE]

(* ---- the persisted task file ---- *)
\* a serialisation that leaves the ledger entries out
stringifyTask_DropsLedger(t) ==
    <<t.id, t.parentId, t.description, t.priority, <<>>,
      t.requirements_for_success, t.completed>>

\* JSON.stringify of one task: the text of its fields
stringifyTask(t) ==
    <<t.id, t.parentId, t.description, t.priority,
      [k \in 1..Len(t.work_ledger) |-> t.work_ledger[k].work_summary],
      t.requirements_for_success, t.completed>>

\* JSON.parse of one task text
parseTask(x) ==
    [id |-> x[1], parentId |-> x[2], description |-> x[3], priority |-> x[4],
     work_ledger |-> [k \in 1..Len(x[5]) |-> [work_summary |-> x[5][k]]],
     requirements_for_success |-> x[6], completed |-> x[7]]

\* The file tasks.json: present or not; its content is the empty string
\* ("empty"), text that is not JSON ("garbage") or JSON ("json"), the
\* latter with a layout and the text of each task.

\* JSON.parse(tasks) throws a SyntaxError on text that is not JSON;
\* readTasks has no try/catch around it
readTasksThrows(file) == file.present /\ file.syntax = "garbage"

\* readWorkFile("tasks.json") returns undefined when the file cannot be read
\* and "" is falsy: readTasks then returns []. The value below is what
\* readTasks returns when it does not throw.
readTasks(file) ==
    IF file.present /\ file.syntax = "json"
    THEN [i \in 1..Len(file.text) |-> parseTask(file.text[i])]
    ELSE <<>>

\* JSON.stringify(tasks, null, 2) written to tasks.json
writeTasks(tasks) ==
    [present |-> TRUE, syntax |-> "json", layout |-> "indent2",
     text |-> [i \in 1..Len(tasks) |-> stringifyTask(tasks[i])]]

AbsentFile == [present |-> FALSE, syntax |-> "none", layout |-> "none", text |-> <<>>]

(* ---- getTaskList ---- *)
\* the filter as in an earlier revision: under a stack top, completed tasks are kept
isCandidate_KeepsCompleted(t, stk) ==
    IF Len(stk) > 0
    THEN t.parentId = stk[Len(stk)]
    ELSE t.completed = FALSE

\* the filter selecting only parentless tasks when the stack is empty
isCandidate_RootsOnly(t, stk) ==
    /\ t.parentId = (IF Len(stk) > 0 THEN stk[Len(stk)] ELSE 0)
    /\ t.completed = FALSE

\* the parent looked up at the bottom of the stack instead of its top
isCandidate_BottomOfStack(t, stk) ==
    IF Len(stk) > 0
    THEN t.parentId = stk[1] /\ t.completed = FALSE
    ELSE t.completed = FALSE

\* the .filter chains of lines 91-93 and 96-97
isCandidate(t, stk) ==
    IF Len(stk) > 0
    THEN t.parentId = stk[Len(stk)] /\ t.completed = FALSE
    ELSE t.completed = FALSE

RECURSIVE filterIdx(_, _, _)
\* Array.prototype.filter: the positions i >= from that pass, in store order
filterIdx(tasks, stk, from) ==
    IF from > Len(tasks) THEN <<>>
    ELSE IF isCandidate(tasks[from], stk)
         THEN <<from>> \o filterIdx(tasks, stk, from + 1)
         ELSE filterIdx(tasks, stk, from + 1)

\* insert position i into the sorted list s, after every element that
\* does not compare greater (Array.prototype.sort is stable)
RECURSIVE insertSorted(_, _, _)
insertSorted(tasks, s, i) ==
    IF s = <<>> THEN <<i>>
    ELSE IF compareTaskPriority(tasks[Head(s)], tasks[i]) <= 0
         THEN <<Head(s)>> \o insertSorted(tasks, Tail(s), i)
         ELSE <<i>> \o s

RECURSIVE sortIdx(_, _)
sortIdx(tasks, idxs) ==
    IF idxs = <<>> THEN <<>>
    ELSE insertSorted(tasks, sortIdx(tasks, SubSeq(idxs, 1, Len(idxs) - 1)),
                      idxs[Len(idxs)])

\* store positions of the candidates, in the order getTaskList returns them
CandidateIdx(tasks, stk) == sortIdx(tasks, filterIdx(tasks, stk, 1))

getTaskList(file, stk) ==
    LET tasks == readTasks(file)
        c == CandidateIdx(tasks, stk)
    IN [k \in 1..Len(c) |-> tasks[c[k]]]

(* ---- processTask ---- *)
\* Array.prototype.find((t) => t.id === id): position of the first match, 0 if none
findById(tasks, id) ==
    IF \E i \in 1..Len(tasks) : tasks[i].id = id
    THEN CHOOSE i \in 1..Len(tasks) :
            tasks[i].id = id /\ \A j \in 1..(i - 1) : tasks[j].id # id
    ELSE 0

\* the .map with the parent link copied from the task instead of pointing at it
makeChildren_CopiesParentLink(task, num, subs) ==
    [k \in 1..Len(subs) |->
        [id |-> num + k, parentId |-> task.parentId, description |-> "sub",
         priority |-> subs[k], work_ledger |-> <<>>,
         requirements_for_success |-> "subReq", completed |-> FALSE]]

\* the .map of lines 284-295: one new task per returned subtask
makeChildren(task, num, subs) ==
    [k \in 1..Len(subs) |->
        [id |-> num + k, parentId |-> task.id, description |-> "sub",
         priority |-> subs[k], work_ledger |-> <<>>,
         requirements_for_success |-> "subReq", completed |-> FALSE]]

\* the ledger assigned instead of pushed to
appendWork_Replaces(file, id, output) ==
    LET currentTasks == readTasks(file)
        u == findById(currentTasks, id)
    IN IF u = 0 THEN file
       ELSE writeTasks([currentTasks EXCEPT ![u].work_ledger =
                            <<[work_summary |-> output]>>])

\* lines 310-315
appendWork(file, id, output) ==
    LET currentTasks == readTasks(file)
        u == findById(currentTasks, id)
    IN IF u = 0 THEN file
       ELSE writeTasks([currentTasks EXCEPT ![u].work_ledger =
                            Append(@, [work_summary |-> output])])

\* lines 321-326
markCompleted(file, id) ==
    LET currentTasks == readTasks(file)
        u == findById(currentTasks, id)
    IN IF u = 0 THEN file
       ELSE writeTasks([currentTasks EXCEPT ![u].completed = TRUE])

(* ---- the work directory ---- *)
\* The files under ./work other than tasks.json, as a set of
\* [path, content] entries, and the directories made there. A path is
\* [dir, name, ext]: "ch/one.md" is [dir |-> "ch", name |-> "one", ext |-> "md"].
EmptyDir == [dirs |-> {}, files |-> {}]

\* fileName.includes("/") and fileName.includes(".")
hasSlash(path) == path.dir # ""
hasDot(path) == path.ext # ""

\* lines 56-65: mkdir -p of the directory part, ".md" added to a name
\* without a dot, writeFile replaces the content
writeWorkFile(work, fileName, content) ==
    LET dirs == IF hasSlash(fileName) THEN work.dirs \cup {fileName.dir}
                ELSE work.dirs
        name == IF ~hasDot(fileName) THEN [fileName EXCEPT !.ext = "md"]
                ELSE fileName
    IN [dirs |-> dirs,
        files |-> {e \in work.files : e.path # name}
                  \cup {[path |-> name, content |-> content]}]

\* readdir("./work", { recursive: true }): every directory and every file
\* below ./work by its relative path, tasks.json among them; the directory
\* "ch" is listed as [dir |-> "", name |-> "ch", ext |-> ""]
dirEntry(d) == [dir |-> "", name |-> d, ext |-> ""]

readdir(work, file) ==
    {dirEntry(d) : d \in work.dirs}
    \cup {e.path : e \in work.files}
    \cup (IF file.present THEN {[dir |-> "", name |-> "tasks", ext |-> "json"]}
          ELSE {})

\* lines 39-44: workDir.filter((item) => !item.includes("."))
readWorkDirTree(work, file) == {item \in readdir(work, file) : ~hasDot(item)}

\* lines 420-461: the output is written to the path the save-location
\* call returned; a failure of any call before that writes nothing
executePrompt(work, outputPath, content) == writeWorkFile(work, outputPath, content)

\* Responses of the external services to one processTask call.
\*   pre : "throw" | "notReady" | "subtasks" | "executePrompt"
\*   subs: the priorities of the returned subtasks
\*   gen : "throw" | a work summary
\*   path, content: the save location and the text to save there
\*   post: "throw" | "complete" | "continue" | "defer"
Result(file, num, stk, work, next, threw) ==
    [file |-> file, taskNum |-> num, taskStack |-> stk, work |-> work,
     next |-> next, threw |-> threw]

\* the subtasks written without the tasks already stored
saveSubtasks_DropsCurrent(file, subtasks) == writeTasks(subtasks)

\* lines 297-299: const currentTasks = await readTasks();
\*                await writeTasks([...currentTasks, ...subtasks])
saveSubtasks(file, subtasks) == writeTasks(readTasks(file) \o subtasks)

\* an empty subtask list handled as nothing to descend into: no push
decompose_SkipsEmptyList(task, stk, file, num, work, subs) ==
    Result(saveSubtasks(file, makeChildren(task, num, subs)), num + Len(subs),
           IF subs = <<>> THEN stk ELSE Append(stk, task.id), work, TRUE, FALSE)

\* lines 282-304, the "subtasks" verdict
decompose(task, stk, file, num, work, subs) ==
    Result(saveSubtasks(file, makeChildren(task, num, subs)), num + Len(subs),
           Append(stk, task.id), work, TRUE, FALSE)

\* the evaluator's "continue" handled as "complete"
executeAndEvaluate_CompletesOnContinue(task, stk, file, num, work, r) ==
    IF r.gen = "throw" THEN Result(file, num, stk, work, FALSE, TRUE)
    ELSE LET f1 == appendWork(file, task.id, r.gen)
             w1 == executePrompt(work, r.path, r.content) IN
         IF r.post = "throw" THEN Result(f1, num, stk, w1, FALSE, TRUE)
         ELSE IF r.post = "complete"
              THEN Result(markCompleted(f1, task.id), num, stk, w1, TRUE, FALSE)
         ELSE IF r.post = "defer" THEN Result(f1, num, stk, w1, TRUE, FALSE)
         ELSE Result(markCompleted(f1, task.id), num, stk, w1, FALSE, FALSE)

\* a failed generation recorded in the ledger as an empty summary
executeAndEvaluate_AppendsOnFailure(task, stk, file, num, work, r) ==
    IF r.gen = "throw"
    THEN Result(appendWork(file, task.id, ""), num, stk, work, FALSE, TRUE)
    ELSE LET f1 == appendWork(file, task.id, r.gen)
             w1 == executePrompt(work, r.path, r.content) IN
         IF r.post = "throw" THEN Result(f1, num, stk, w1, FALSE, TRUE)
         ELSE IF r.post = "complete"
              THEN Result(markCompleted(f1, task.id), num, stk, w1, TRUE, FALSE)
         ELSE IF r.post = "defer" THEN Result(f1, num, stk, w1, TRUE, FALSE)
         ELSE Result(f1, num, stk, w1, FALSE, FALSE)

\* lines 305-332, the "executePrompt" verdict followed by post processing
executeAndEvaluate(task, stk, file, num, work, r) ==
    IF r.gen = "throw" THEN Result(file, num, stk, work, FALSE, TRUE)
    ELSE LET f1 == appendWork(file, task.id, r.gen)
             w1 == executePrompt(work, r.path, r.content) IN
         IF r.post = "throw" THEN Result(f1, num, stk, w1, FALSE, TRUE)
         ELSE IF r.post = "complete"
              THEN Result(markCompleted(f1, task.id), num, stk, w1, TRUE, FALSE)
         ELSE IF r.post = "defer" THEN Result(f1, num, stk, w1, TRUE, FALSE)
         ELSE Result(f1, num, stk, w1, FALSE, FALSE)

\* a task that is not ready parked like a decomposed one
processTask_ParksNotReady(task, stk, file, num, work, r) ==
    IF r.pre = "throw" THEN Result(file, num, stk, work, FALSE, TRUE)
    ELSE IF r.pre = "notReady"
         THEN Result(file, num, Append(stk, task.id), work, TRUE, FALSE)
    ELSE IF r.pre = "subtasks" THEN decompose(task, stk, file, num, work, r.subs)
    ELSE executeAndEvaluate(task, stk, file, num, work, r)

processTask(task, stk, file, num, work, r) ==
    IF r.pre = "throw" THEN Result(file, num, stk, work, FALSE, TRUE)
    ELSE IF r.pre = "notReady" THEN Result(file, num, stk, work, TRUE, FALSE)
    ELSE IF r.pre = "subtasks" THEN decompose(task, stk, file, num, work, r.subs)
    ELSE executeAndEvaluate(task, stk, file, num, work, r)

(* ---- main and the scheduling loop ---- *)
SubtaskLists == UNION {[1..n -> Priorities] : n \in 0..MaxSubtasks}

\* save locations and texts the services may return
SavePaths ==
    {[dir |-> "", name |-> "notes", ext |-> ""],
     [dir |-> "ch", name |-> "one", ext |-> "md"]}

NoPath == [dir |-> "", name |-> "", ext |-> ""]

\* the text output: content and summary_of_work_done
TextOutputs ==
    {[content |-> "c1", summary_of_work_done |-> "s1"],
     [content |-> "c2", summary_of_work_done |-> "s2"]}

Response(pre, subs, gen, path, content, post) ==
    [pre |-> pre, subs |-> subs, gen |-> gen, path |-> path,
     content |-> content, post |-> post]

Responses ==
    {Response("throw", <<>>, "throw", NoPath, "", "throw"),
     Response("notReady", <<>>, "throw", NoPath, "", "throw"),
     Response("executePrompt", <<>>, "throw", NoPath, "", "throw")}
    \cup {Response("subtasks", s, "throw", NoPath, "", "throw") :
            s \in SubtaskLists}
    \cup {Response("executePrompt", <<>>, o.summary_of_work_done, p, o.content, e) :
            o \in TextOutputs, p \in SavePaths,
            e \in {"throw", "complete", "continue", "defer"}}

\* what the step just taken was; op names the path taken through processTask
NoStep(op) ==
    [op |-> op, idx |-> 0, n |-> 0, summary |-> "", next |-> FALSE]

StepOp(r) ==
    IF r.pre = "throw" THEN "classifyFailed"
    ELSE IF r.pre \in {"notReady", "subtasks"} THEN r.pre
    ELSE IF r.gen = "throw" THEN "generateFailed"
    ELSE IF r.post = "throw" THEN "evaluateFailed"
    ELSE r.post

\* line 268: task.work_ledger.map((work) => work.work_summary), the ledger
\* text postProcessTask(task) puts into the evaluator's prompt; task is the
\* object processTask was called with
workAlreadyDone(task) ==
    [k \in 1..Len(task.work_ledger) |-> task.work_ledger[k].work_summary]

\* what the step just taken handed to, or got from, a collaborator
Nothing == [what |-> "none", threw |-> FALSE, value |-> <<>>]

Init ==
    /\ seen = Nothing
    /\ workDir = EmptyDir
    /\ tasksFile = AbsentFile
    /\ taskNum = 0
    /\ taskStack = <<>>
    /\ budget = 0
    /\ pc = "main"
    /\ restarts = 0
    /\ last = NoStep("init")

\* the caller persists the root task when the store holds no task yet
seedRoot(file) ==
    IF readTasks(file) = <<>> THEN writeTasks(<<RootTask>>) ELSE file

\* main: taskStack = [], taskNum++, makeTaskSubtasks(root) numbers its
\* subtasks and main only logs them; then the scheduling loop is entered
\* with the caller-supplied iteration budget
Main ==
    /\ pc = "main"
    /\ \E n \in 0..MaxPlanned : taskNum' = taskNum + 1 + n
    /\ budget' = MaxBudget
    /\ taskStack' = <<>>
    /\ tasksFile' = seedRoot(tasksFile)
    /\ pc' = "loop"
    /\ last' = NoStep("main")
    /\ seen' = Nothing
    /\ UNCHANGED <<restarts, workDir>>

\* main when makeTaskSubtasks rejects (the response fails validation)
MainFails ==
    /\ pc = "main"
    /\ taskNum' = taskNum + 1
    /\ taskStack' = <<>>
    /\ pc' = "crashed"
    /\ last' = NoStep("mainFailed")
    /\ seen' = Nothing
    /\ UNCHANGED <<tasksFile, budget, restarts, workDir>>

\* a failure thrown by processTask left to end the run
afterStep_Propagates(res) == IF res.threw THEN "crashed" ELSE "loop"

\* the loop catches a failure thrown by processTask and goes on
afterStep(res) == "loop"

\* the directive the loop acts on: a caught failure counts as advance
directive(res) == IF res.threw THEN TRUE ELSE res.next

LoopDone ==
    \/ budget = 0
    \/ taskStack = <<>> /\ getTaskList(tasksFile, <<>>) = <<>>

\* one iteration of the loop on the head of getTaskList(taskStack)
ProcessHead ==
    /\ pc = "loop"
    /\ ~LoopDone
    /\ LET tasks == readTasks(tasksFile)
           c == CandidateIdx(tasks, taskStack)
       IN /\ c # <<>>
          /\ \E r \in Responses :
               LET task == getTaskList(tasksFile, taskStack)[1]
                   res == processTask(task, taskStack, tasksFile, taskNum, workDir, r)
                   u == findById(tasks, task.id)
               IN /\ r.pre = "subtasks" => Len(tasks) + Len(r.subs) <= MaxTasks
                  /\ (r.pre = "executePrompt" /\ r.gen # "throw")
                        => Len(tasks[u].work_ledger) < MaxLedger
                  /\ tasksFile' = res.file
                  /\ taskNum' = res.taskNum
                  /\ taskStack' = res.taskStack
                  /\ workDir' = res.work
                  /\ last' = [op |-> StepOp(r), idx |-> c[1], n |-> Len(r.subs),
                              summary |-> IF r.pre = "executePrompt" /\ r.gen # "throw"
                                          THEN r.gen ELSE "",
                              next |-> directive(res)]
                  /\ pc' = afterStep(res)
                  /\ seen' = IF r.pre = "executePrompt" /\ r.gen # "throw"
                             THEN [what |-> "postProcessTask",
                                   threw |-> r.post = "throw",
                                   value |-> workAlreadyDone(task)]
                             ELSE Nothing
    /\ budget' = budget - 1
    /\ UNCHANGED restarts

\* an iteration that finds no candidate under the top of a non-empty stack
IdleIteration ==
    /\ pc = "loop"
    /\ ~LoopDone
    /\ getTaskList(tasksFile, taskStack) = <<>>
    /\ budget' = budget - 1
    /\ last' = NoStep("idle")
    /\ seen' = Nothing
    /\ UNCHANGED <<tasksFile, taskNum, taskStack, pc, restarts, workDir>>

LoopExit ==
    /\ pc = "loop"
    /\ LoopDone
    /\ pc' = "done"
    /\ last' = NoStep("exit")
    /\ seen' = Nothing
    /\ UNCHANGED <<tasksFile, taskNum, taskStack, budget, restarts, workDir>>

\* the process ends and a new one is started on the persisted store:
\* module state (let taskNum = 0) is initialised again
Restart ==
    /\ pc \in {"loop", "done", "crashed"}
    /\ restarts < MaxRestarts
    /\ restarts' = restarts + 1
    /\ taskNum' = 0
    /\ taskStack' = <<>>
    /\ budget' = 0
    /\ pc' = "main"
    /\ last' = NoStep("restart")
    /\ seen' = Nothing
    /\ UNCHANGED <<tasksFile, workDir>>

Next ==
    \/ Main
    \/ MainFails
    \/ ProcessHead
    \/ IdleIteration
    \/ LoopExit
    \/ Restart

Spec == Init /\ [][Next]_vars

LoopStep == ProcessHead \/ IdleIteration \/ LoopExit

\* Weak fairness of main and of the loop's next iteration, with ENABLED
\* written out: Main can be taken exactly when pc = "main", and some
\* LoopStep can be taken exactly when pc = "loop" (LoopExit when LoopDone,
\* IdleIteration when there is no candidate, ProcessHead otherwise, a
\* classification failure being always among the responses).
\* Nothing obliges the process to be restarted.
MainFair == []<>(pc # "main") \/ []<><<Main>>_vars
LoopFair == []<>(pc # "loop") \/ []<><<LoopStep>>_vars

LiveSpec == Spec /\ MainFair /\ LoopFair

\* the task collection currently persisted, and after the step
Tasks == readTasks(tasksFile)
TasksAfter == readTasks(tasksFile')

TypeOK ==
    /\ taskNum \in Nat
    /\ budget \in 0..MaxBudget
    /\ Len(Tasks) <= MaxTasks
    /\ pc \in {"main", "loop", "done", "crashed", "store"}

(* ---- readTasks and writeTasks on every kind of task file ---- *)
\* texts of single tasks as they may stand in the file
SampleTexts ==
    {<<1, 0, "root", "high", <<>>, "rootReq", FALSE>>,
     <<2, 1, "sub", "low", <<"s1">>, "subReq", TRUE>>,
     <<3, 1, "sub", "medium", <<"s2", "s1">>, "subReq", FALSE>>}

\* JSON text of the same collection may be laid out differently
Layouts == {"indent2", "compact", "tabs"}

StoreFiles ==
    {AbsentFile,
     [present |-> TRUE, syntax |-> "empty", layout |-> "none", text |-> <<>>],
     [present |-> TRUE, syntax |-> "garbage", layout |-> "none", text |-> <<>>]}
    \cup {[present |-> TRUE, syntax |-> "json", layout |-> l, text |-> x] :
            l \in Layouts,
            x \in UNION {[1..n -> SampleTexts] : n \in 0..MaxStored}}

\* task collections a caller may hand to writeTasks
StoreTaskLists ==
    UNION {[1..n -> {parseTask(x) : x \in SampleTexts}] : n \in 0..MaxStored}

StoreInit ==
    /\ tasksFile \in StoreFiles
    /\ taskNum = 0
    /\ taskStack = <<>>
    /\ budget = 0
    /\ pc = "store"
    /\ restarts = 0
    /\ last = NoStep("init")
    /\ seen = Nothing
    /\ workDir = EmptyDir

\* await readTasks()
StoreRead ==
    /\ pc = "store"
    /\ seen' = [what |-> "readTasks", threw |-> readTasksThrows(tasksFile),
                value |-> readTasks(tasksFile)]
    /\ UNCHANGED <<tasksFile, taskNum, taskStack, budget, pc, restarts, last, workDir>>

\* await writeTasks(await readTasks())
StoreRoundTrip ==
    /\ pc = "store"
    /\ ~readTasksThrows(tasksFile)
    /\ tasksFile' = writeTasks(readTasks(tasksFile))
    /\ seen' = [what |-> "roundTrip", threw |-> FALSE, value |-> readTasks(tasksFile)]
    /\ UNCHANGED <<taskNum, taskStack, budget, pc, restarts, last, workDir>>

\* the same when readTasks throws: nothing is written
StoreRoundTripThrows ==
    /\ pc = "store"
    /\ readTasksThrows(tasksFile)
    /\ seen' = [what |-> "roundTrip", threw |-> TRUE, value |-> <<>>]
    /\ UNCHANGED <<tasksFile, taskNum, taskStack, budget, pc, restarts, last, workDir>>

\* await writeTasks(tasks)
StoreWrite ==
    /\ pc = "store"
    /\ \E ts \in StoreTaskLists :
         /\ tasksFile' = writeTasks(ts)
         /\ seen' = [what |-> "writeTasks", threw |-> FALSE, value |-> ts]
    /\ UNCHANGED <<taskNum, taskStack, budget, pc, restarts, last, workDir>>

StoreNext ==
    \/ StoreWrite
    \/ StoreRead
    \/ StoreRoundTrip
    \/ StoreRoundTripThrows

StoreSpec == StoreInit /\ [][StoreNext]_vars

(* ---- helpers of the properties ---- *)
Range(f) == {f[k] : k \in DOMAIN f}

IsPrefix(a, b) == Len(a) <= Len(b) /\ \A k \in 1..Len(a) : a[k] = b[k]

\* every stack top that can select anything, and the empty stack
AnyStack(tasks) ==
    {<<>>} \cup {<<p>> : p \in {0} \cup {tasks[i].id : i \in 1..Len(tasks)}
                              \cup {tasks[i].parentId : i \in 1..Len(tasks)}}

\* C1: once a stored task has completed = true, after every later step it
\* still has completed = true and it is in the candidate list of no stack.
C1_CompletedStaysOut ==
    [][\A i \in 1..Len(Tasks) :
         Tasks[i].completed =>
            /\ i <= Len(TasksAfter)
            /\ TasksAfter[i].completed
            /\ \A stk \in AnyStack(TasksAfter) :
                 /\ i \notin Range(CandidateIdx(TasksAfter, stk))
                 /\ TasksAfter[i] \notin Range(getTaskList(tasksFile', stk))]_vars

\* a task was completed by processTask, its parent is on top of the stack and
\* a later step has processed a sibling
C1_Witness ==
    /\ taskStack # <<>>
    /\ last.idx # 0
    /\ \E i \in 1..Len(Tasks) :
         /\ Tasks[i].completed
         /\ Tasks[i].parentId = taskStack[Len(taskStack)]
         /\ i # last.idx

\* C2: for every stack, getTaskList returns the candidates by priority
\* descending (high before medium before low).
C2_PriorityDescending ==
    \A stk \in AnyStack(Tasks) :
        LET l == getTaskList(tasksFile, stk)
        IN \A k \in 1..Len(l) : \A m \in (k + 1)..Len(l) :
              indexOf(l[k].priority) >= indexOf(l[m].priority)

\* C3: a decompose verdict with n subtasks leaves the previous tasks as they
\* were and appends exactly n tasks, each with parentId = t.id, an empty
\* ledger and completed = false.
C3_DecomposeAddsChildren ==
    [][last'.op = "subtasks" =>
         /\ Len(TasksAfter) = Len(Tasks) + last'.n
         /\ SubSeq(TasksAfter, 1, Len(Tasks)) = Tasks
         /\ \A j \in (Len(Tasks) + 1)..Len(TasksAfter) :
              /\ TasksAfter[j].parentId = Tasks[last'.idx].id
              /\ TasksAfter[j].work_ledger = <<>>
              /\ TasksAfter[j].completed = FALSE]_vars

\* a task has just been decomposed into two subtasks
C3_Witness ==
    /\ last.op = "subtasks"
    /\ last.n = 2
    /\ Len(Tasks) = 3

\* C4: all task ids in the store are pairwise distinct.
C4_IdsDistinct ==
    \A i \in 1..Len(Tasks) : \A j \in 1..Len(Tasks) :
        i # j => Tasks[i].id # Tasks[j].id

\* C5: execute verdict, generation succeeds, evaluator says complete: the
\* stored task t has one more ledger entry, the last one being the returned
\* summary, completed = true, and the directive is advance.
C5_ExecuteComplete ==
    [][last'.op = "complete" =>
         LET i == last'.idx IN
         /\ Len(TasksAfter[i].work_ledger) = Len(Tasks[i].work_ledger) + 1
         /\ TasksAfter[i].work_ledger[Len(TasksAfter[i].work_ledger)]
                = [work_summary |-> last'.summary]
         /\ TasksAfter[i].completed
         /\ last'.next = TRUE]_vars

\* C6: on continue, processTask returns retry and t stays incomplete, and
\* the next iteration of the loop processes t again.
C6_ContinueRetriesSameTask ==
    [][/\ last'.op = "continue" =>
            /\ last'.next = FALSE
            /\ TasksAfter[last'.idx].completed = FALSE
       /\ (last.op = "continue" /\ pc' = "loop" /\ budget' < budget) =>
            last'.idx = last.idx]_vars

\* a task that has a sibling candidate was executed a second time and
\* continued again
C6_Witness ==
    /\ last.op = "continue"
    /\ Len(Tasks[last.idx].work_ledger) = 2
    /\ Len(getTaskList(tasksFile, taskStack)) >= 2

\* C7: when the generation step fails, the stored task t keeps its ledger
\* and its completed flag, and no ledger grows.
C7_GenerationFailureNoAppend ==
    [][last'.op = "generateFailed" =>
         /\ Len(TasksAfter) = Len(Tasks)
         /\ TasksAfter[last'.idx].work_ledger = Tasks[last'.idx].work_ledger
         /\ TasksAfter[last'.idx].completed = Tasks[last'.idx].completed
         /\ \A i \in 1..Len(Tasks) :
              Len(TasksAfter[i].work_ledger) = Len(Tasks[i].work_ledger)]_vars

\* the generation step failed for a task that already has a ledger entry
C7_Witness ==
    /\ last.op = "generateFailed"
    /\ Tasks[last.idx].work_ledger # <<>>

C9_LedgerAppendOnly ==
    [][\A i \in 1..Len(Tasks) :
         /\ i <= Len(TasksAfter)
         /\ IsPrefix(Tasks[i].work_ledger, TasksAfter[i].work_ledger)]_vars

\* a ledger holds two different summaries, appended by two steps
C9_Witness ==
    \E i \in 1..Len(Tasks) :
        /\ Len(Tasks[i].work_ledger) = 2
        /\ Tasks[i].work_ledger[1] # Tasks[i].work_ledger[2]

\* C10: every task with parentId # 0 has the id of a stored task as parentId.
C10_ParentExists ==
    \A i \in 1..Len(Tasks) :
        Tasks[i].parentId # 0 =>
            \E j \in 1..Len(Tasks) : Tasks[j].id = Tasks[i].parentId

\* a child of a child of the root is stored
C10_Witness ==
    \E i \in 1..Len(Tasks) : \E j \in 1..Len(Tasks) :
        /\ Tasks[i].parentId = Tasks[j].id
        /\ Tasks[j].parentId # 0

FailedOps == {"classifyFailed", "generateFailed", "evaluateFailed"}

C12_ReadNeverRaises ==
    (/\ seen.what = "readTasks"
     /\ \/ ~tasksFile.present
        \/ tasksFile.syntax \in {"empty", "garbage"})
    => (~seen.threw /\ seen.value = <<>>)

DeepStacks(tasks) ==
    AnyStack(tasks)
    \cup {<<p, q>> : p \in {tasks[i].id : i \in 1..Len(tasks)},
                     q \in {0} \cup {tasks[i].id : i \in 1..Len(tasks)}}

\* the tasks the specification selects for a stack, by store position
Selected(tasks, stk) ==
    {i \in 1..Len(tasks) :
        /\ tasks[i].completed = FALSE
        /\ stk # <<>> => tasks[i].parentId = stk[Len(stk)]}

\* C13: for every store content and stack, getTaskList(stack) holds exactly
\* the incomplete tasks whose parentId is the top of the stack (all incomplete
\* tasks when the stack is empty): none more, none missing, none twice.
C13_CandidatesExact ==
    \A stk \in DeepStacks(Tasks) :
        LET c == CandidateIdx(Tasks, stk)
            l == getTaskList(tasksFile, stk)
        IN /\ Range(c) = Selected(Tasks, stk)
           /\ Len(c) = Cardinality(Selected(Tasks, stk))
           /\ Range(l) = {Tasks[i] : i \in Selected(Tasks, stk)}

\* under the top of the stack there are a completed and an incomplete child,
\* and the store holds an incomplete task of another level
C13_Witness ==
    /\ taskStack # <<>>
    /\ \E i, j, k \in 1..Len(Tasks) :
         /\ Tasks[i].parentId = taskStack[Len(taskStack)] /\ Tasks[i].completed
         /\ Tasks[j].parentId = taskStack[Len(taskStack)] /\ ~Tasks[j].completed
         /\ Tasks[k].parentId # taskStack[Len(taskStack)] /\ ~Tasks[k].completed
    /\ Len(getTaskList(tasksFile, taskStack)) = 1

\* C15: a not-ready verdict makes processTask return advance and leaves the
\* task store, the stack, the id counter and the work directory as they were.
C15_NotReadyChangesNothing ==
    [][last'.op = "notReady" =>
         /\ last'.next = TRUE
         /\ tasksFile' = tasksFile
         /\ taskStack' = taskStack
         /\ taskNum' = taskNum
         /\ workDir' = workDir]_vars

\* a not-ready verdict on a task whose earlier execution left a ledger entry
\* and a file in the work directory
C15_Witness ==
    /\ last.op = "notReady"
    /\ last.next = TRUE
    /\ workDir.files # {}
    /\ Tasks[last.idx].work_ledger # <<>>

\* C16: a decompose verdict on t persists the children, pushes t.id as the
\* new top of the stack and returns advance; the candidates of the next step
\* are exactly the incomplete tasks with parentId = t.id, and t is not one
\* of them.
C16_DecomposeDescends ==
    [][last'.op = "subtasks" =>
         LET t == Tasks[last'.idx]
             c == CandidateIdx(TasksAfter, taskStack')
         IN /\ last'.next = TRUE
            /\ Len(TasksAfter) = Len(Tasks) + last'.n
            /\ taskStack' = Append(taskStack, t.id)
            /\ Range(c) = {i \in 1..Len(TasksAfter) :
                             /\ TasksAfter[i].parentId = t.id
                             /\ ~TasksAfter[i].completed}
            /\ last'.idx \notin Range(c)]_vars

\* C17: a task whose id is on the stack is not the task handed to
\* processTask: no step classifies, decomposes, executes or completes it.
C17_ParkedNotProcessed ==
    [][last'.idx # 0 =>
         /\ Tasks[last'.idx].id \notin Range(taskStack)
         /\ \A i \in 1..Len(Tasks) :
              Tasks[i].id \in Range(taskStack) =>
                 /\ TasksAfter[i] = Tasks[i]
                 /\ i # last'.idx]_vars

\* C18: when the task on top of the stack has no incomplete child left, the
\* iteration that finds this returns scheduling to the parent's level: the
\* parked parent, if incomplete, is a candidate of the next step and is not
\* left under a stack whose candidate list is empty.
C18_ParentResumed ==
    [][last'.op = "idle" =>
         \A i \in 1..Len(Tasks) :
            (Tasks[i].id = taskStack[Len(taskStack)] /\ ~Tasks[i].completed)
               => /\ i \in Range(CandidateIdx(TasksAfter, taskStack'))
                  /\ getTaskList(tasksFile', taskStack') # <<>>]_vars

\* C19: in the execute path the evaluator is given the task's ledger as it
\* stands after the append of this step: the text it receives is the stored
\* ledger of the task and ends with the work summary this step produced.
C19_EvaluatorSeesNewWork ==
    seen.what = "postProcessTask" =>
        /\ seen.value # <<>>
        /\ seen.value[Len(seen.value)] = last.summary
        /\ seen.value = workAlreadyDone(Tasks[last.idx])

\* C20: when the evaluation call fails, the step leaves the stored task as
\* it was before the step (same work ledger, same completed flag) and the
\* task is still selectable.
C20_EvaluationFailureNoMutation ==
    [][last'.op = "evaluateFailed" =>
         /\ TasksAfter[last'.idx].work_ledger = Tasks[last'.idx].work_ledger
         /\ TasksAfter[last'.idx].completed = Tasks[last'.idx].completed
         /\ last'.idx \in Range(CandidateIdx(TasksAfter, taskStack'))]_vars

C22_ListingShowsFiles ==
    LET files == readWorkDirTree(workDir, tasksFile)
    IN /\ \A e \in workDir.files : e.path \in files
       /\ \A d \in workDir.dirs : dirEntry(d) \notin files

\* the stack read as a chain of ancestors in the store
IsAncestorChain(stk, tasks) ==
    /\ \A a, b \in 1..Len(stk) : a # b => stk[a] # stk[b]
    /\ \A a \in 1..Len(stk) :
         \E i \in 1..Len(tasks) :
            /\ tasks[i].id = stk[a]
            /\ ~tasks[i].completed
            /\ a > 1 => tasks[i].parentId = stk[a - 1]

\* C23: in every reachable state the stack is a chain of distinct ancestors
\* (entries pairwise distinct, each the id of an incomplete stored task, each
\* entry after the first the id of a task whose parentId is the entry below),
\* and within a run the stack only grows: its earlier contents are a prefix
\* of its later contents.
C23_StackIsAncestorChain ==
    /\ [](IsAncestorChain(taskStack, Tasks))
    /\ [][last'.op \notin {"main", "mainFailed", "restart"}
            => IsPrefix(taskStack, taskStack')]_vars

\* C24: a scheduling step on t changes no other task. In the execute path
\* only t's work ledger and completed flag can differ afterwards, in the
\* decompose path every task stored before (t too) is identical afterwards,
\* and no step ever changes id, parentId, description, priority or
\* requirements_for_success of a stored task.
C24_StepTouchesOnlyItsTask ==
    /\ [][\A i \in 1..Len(Tasks) :
             /\ i <= Len(TasksAfter)
             /\ TasksAfter[i].id = Tasks[i].id
             /\ TasksAfter[i].parentId = Tasks[i].parentId
             /\ TasksAfter[i].description = Tasks[i].description
             /\ TasksAfter[i].priority = Tasks[i].priority
             /\ TasksAfter[i].requirements_for_success
                   = Tasks[i].requirements_for_success]_vars
    /\ [][last'.idx # 0 =>
             \A i \in 1..Len(Tasks) :
                (i # last'.idx \/ last'.op = "subtasks")
                   => TasksAfter[i] = Tasks[i]]_vars

\* C25: a decompose verdict with an empty subtask list leaves the stored
\* tasks as they were, still pushes t.id onto the stack and returns advance,
\* with t still incomplete; every candidate of the next step, if there is
\* one, has parentId = t.id.
C25_EmptyDecomposeStillPushes ==
    [][(last'.op = "subtasks" /\ last'.n = 0) =>
         /\ TasksAfter = Tasks
         /\ taskNum' = taskNum
         /\ taskStack' = Append(taskStack, Tasks[last'.idx].id)
         /\ last'.next = TRUE
         /\ ~TasksAfter[last'.idx].completed
         /\ \A j \in Range(CandidateIdx(TasksAfter, taskStack')) :
              TasksAfter[j].parentId = Tasks[last'.idx].id]_vars

\* the state the claim says can be reached: t was pushed by a decompose
\* verdict without subtasks, no task has it as parent, the candidate list is
\* empty and t is still incomplete
C25_Witness ==
    /\ last.op = "subtasks" /\ last.n = 0
    /\ taskStack # <<>>
    /\ taskStack[Len(taskStack)] = Tasks[last.idx].id
    /\ \A i \in 1..Len(Tasks) : Tasks[i].parentId # Tasks[last.idx].id
    /\ getTaskList(tasksFile, taskStack) = <<>>
    /\ ~Tasks[last.idx].completed

====
